---- MODULE Spec2Model ----
(***************************************************************************)
(* ssearch.py: enumerate the pool rrsets of every zone of every            *)
(* sub-account of an UltraDNS reseller account and write them as a flat    *)
(* JSON/CSV report.  The program is one sequential process; the state is   *)
(* the locals of main() and of the fetch function it is in, the console,   *)
(* the report destinations, and the HTTP traffic exchanged with the        *)
(* server.  The server is the environment: what it holds is decided when   *)
(* it is first asked and remembered in the srv* variables.                 *)
(***************************************************************************)
EXTENDS Integers, Sequences, FiniteSets, TLC

(***************************************************************************)
(* Bounds of the model.                                                    *)
(***************************************************************************)
\* Sub-accounts the reseller has when main() runs.
MaxAccounts == 2
\* Zones the server holds, over all sub-accounts.
MaxZones == 2
\* Pool rrsets the server holds, over all zones.
MaxPools == 2
\* Size of the result set when a fetch function is run on its own.
MaxTotal == 2001

\* limit=1000 of the offset-style URLs, the returnedCount test and the
\* offset step (ssearch.py:50,57,59 and 95,101,103).
PageLimit == 1000

VARIABLES
    pc,                 \* statement the process is at
    entry,              \* function the run was started at
    primary_token,      \* main: primary_token
    refresh_token_val,  \* main: refresh_token_val
    offset,             \* get_subaccounts / get_pools: offset
    subaccounts,        \* get_subaccounts: subaccounts; main: subaccounts
    acctIdx,            \* main: position of `account` in subaccounts
    subaccount_token,   \* main: subaccount_token
    cursor,             \* get_zones: cursor
    zones,              \* get_zones: zones; main: zones
    zoneIdx,            \* main: position of `zone` in zones
    pools,              \* get_pools: pools; main: pools
    data,               \* main: data
    console,            \* lines print() wrote that are not the report
    error,              \* exception that ended the run, "" if none
    exit_code,          \* process exit status, -1 while running
    outfile,            \* the named output file
    stdout_report,      \* report text written to standard output
    output_file,        \* main: output_file given (--output-file)
    format,             \* main: format
    reqs,               \* HTTP requests sent so far, with the answers
    srvNumAccounts,     \* server: number of sub-accounts of the reseller
    srvZoneList,        \* server: account id -> its zones (once asked)
    srvPoolList         \* server: zone id -> its pool rrsets (once asked)

vars == <<pc, entry, primary_token, refresh_token_val, offset, subaccounts,
          acctIdx, subaccount_token, cursor, zones, zoneIdx, pools, data,
          console, error, exit_code, outfile, stdout_report, output_file,
          format, reqs,
          srvNumAccounts, srvZoneList, srvPoolList>>

(***************************************************************************)
(* Values.                                                                 *)
(***************************************************************************)
\* Python's None where a token is expected; falsy.
NoneTok == [kind |-> "none", acct |-> 0]
\* --token given on the command line.
DirectTok == [kind |-> "direct", acct |-> 0]
\* accessToken / refreshToken of the password grant.
AccessTok == [kind |-> "access", acct |-> 0]
RefreshTok == [kind |-> "refresh", acct |-> 0]
\* accessToken of POST /subaccounts/{name}/token for account a.
SubTok(a) == [kind |-> "sub", acct |-> a]

Truthy(tok) == tok /= NoneTok

\* The cursor query parameter: "" (and an absent `next`) is <<>>, falsy; a
\* server token is <<p>>, p >= 1 the number of zones already served.
EmptyCursor == <<>>
CursorAt(p) == <<p>>
CursorPos(c) == IF c = EmptyCursor THEN 0 ELSE c[1]

\* Phrases the program looks for in a response body; a body is the set of
\* those it contains.
Suspended == "is suspended"
NoPermission == "do not have permissions"

Min(a, b) == IF a < b THEN a ELSE b

\* accountName of the account object with id a.
AccountNames == <<"Acme", "Beta Co", "Gamma", "Delta">>
AccountName(a) == AccountNames[a]
\* properties.name of the zone object with id z.
ZoneNames == <<"acme.com", "beta.net", "gamma.org", "delta.io", "eps.dev">>
ZoneName(z) == ZoneNames[z]
\* ownerName and profile.@context of the rrset object with id p.
PoolNames == <<"pool1", "pool2", "www", "mail", "api">>
PoolTypes == <<"A", "CNAME", "RDPool", "SBPool", "TCPool">>
PoolName(p) == PoolNames[p]
PoolType(p) == PoolTypes[p]

FieldNames == <<"Sub Account Name", "Zone Name", "Pool Name", "Pool Type">>

Row(a, z, p, t) ==
    ("Sub Account Name" :> a) @@ ("Zone Name" :> z) @@
    ("Pool Name" :> p) @@ ("Pool Type" :> t)

\* data as main() creates it (line 109).
InitialData == << Row("", "", "", "") >>

\* The n objects of a result set, identified 1..n, in the server's order.
Items(n) == [i \in 1..n |-> i]

\* requests' raise_for_status(): raises HTTPError for 4xx and 5xx.
IsHttpError(status) == status >= 400 /\ status < 600

\* One HTTP exchange: the request (op, bearer token, target account or zone,
\* offset or cursor position) and the answer (status, body phrases,
\* returnedCount, next cursor).
Req(op, tok, target, at, status, body, count, next) ==
    [op |-> op, tok |-> tok, target |-> target, at |-> at, status |-> status,
     body |-> body, count |-> count, next |-> next]

(***************************************************************************)
(* The server.                                                             *)
(***************************************************************************)
\* Ids of the objects the server has already shown.
UsedIds(lists) == UNION {{lists[k][i] : i \in DOMAIN lists[k]} : k \in DOMAIN lists}

\* Pool rrsets the server may hold: MaxPools under main(), MaxTotal when
\* get_pools is run on its own.
PoolCap == IF entry = "main" THEN MaxPools ELSE MaxTotal

\* n further objects, numbered after the ones in `lists`.
Fresh(lists, n) == [i \in 1..n |-> Cardinality(UsedIds(lists)) + i]

\* The zones of account a: as shown before, or decided now.
ZoneListChoices(a) ==
    IF a \in DOMAIN srvZoneList THEN {srvZoneList[a]}
    ELSE {Fresh(srvZoneList, n) :
            n \in 0..(MaxZones - Cardinality(UsedIds(srvZoneList)))}

\* The pool rrsets of zone z: as shown before, or decided now.
PoolListChoices(z) ==
    IF z \in DOMAIN srvPoolList THEN {srvPoolList[z]}
    ELSE {Fresh(srvPoolList, n) :
            n \in 0..(PoolCap - Cardinality(UsedIds(srvPoolList)))}

\* GET ...?limit=1000&offset=o over the result set `all`.
ServerPage(all, o) == SubSeq(all, o + 1, Min(o + PageLimit, Len(all)))

\* Lengths a cursor page may have when `remaining` zones are left.
PageSizes(remaining) ==
    IF remaining = 0 THEN {0} ELSE 1..Min(remaining, PageLimit)

\* Statuses and bodies the server answers with.
ErrorStatuses == {401, 403, 404, 500}
ListBodies == {{}, {NoPermission}}
TokenBodies == {{}, {Suspended}}

(***************************************************************************)
(* Initial states.                                                         *)
(***************************************************************************)
Locals ==
    /\ offset = 0
    /\ subaccounts = <<>>
    /\ acctIdx = 0
    /\ cursor = EmptyCursor
    /\ pools = <<>>
    /\ data = <<>>
    /\ console = <<>>
    /\ error = ""
    /\ exit_code = -1
    /\ outfile = [opened |-> FALSE, text |-> <<>>]
    /\ stdout_report = <<>>
    /\ reqs = <<>>
    /\ srvZoneList = <<>>
    /\ srvPoolList = <<>>

\* python ssearch.py ...: main() is about to run (line 160).
Init ==
    /\ Locals
    /\ entry = "main"
    /\ pc = "get_primary_token"
    /\ primary_token = NoneTok
    /\ refresh_token_val = NoneTok
    /\ subaccount_token = NoneTok
    /\ zones = <<>>
    /\ zoneIdx = 0
    /\ output_file \in BOOLEAN
    /\ format \in {"json", "csv"}
    /\ srvNumAccounts \in 0..MaxAccounts

\* get_subaccounts(token, refresh_token) or get_pools(zone_name, token)
\* called on its own with the default offset.
InitFetch ==
    /\ Locals
    /\ entry \in {"get_subaccounts", "get_pools"}
    /\ pc = entry
    /\ output_file = FALSE
    /\ format = "json"
    /\ IF entry = "get_subaccounts"
       THEN /\ primary_token = AccessTok
            /\ refresh_token_val \in {NoneTok, RefreshTok}
            /\ subaccount_token = NoneTok
            /\ zones = <<>>
            /\ zoneIdx = 0
            /\ srvNumAccounts \in 0..MaxTotal
       ELSE /\ primary_token = NoneTok
            /\ refresh_token_val = NoneTok
            /\ subaccount_token = SubTok(1)
            /\ zones = <<1>>
            /\ zoneIdx = 1
            /\ srvNumAccounts = 1

(***************************************************************************)
(* Control.                                                                *)
(***************************************************************************)
srv == <<srvNumAccounts, srvZoneList, srvPoolList>>
args == <<entry, output_file, format>>
auth == <<primary_token, refresh_token_val>>
dest == <<outfile, stdout_report>>

\* An exception nothing catches: the interpreter prints the traceback and
\* the process ends with status 1.
Raise(e) == pc' = "aborted" /\ error' = e /\ exit_code' = 1

\* exit(code).
Exit(code) == pc' = "exited" /\ error' = "SystemExit" /\ exit_code' = code

Goto(p) == pc' = p /\ UNCHANGED <<error, exit_code>>

\* The statement main() is at once the body of `for account` has ended for
\* the account at position i (lines 111, 115).
AfterAccount(i) ==
    IF i + 1 > Len(subaccounts) THEN "report" ELSE "get_subaccount_token"

(***************************************************************************)
(* get_primary_token (lines 11-23), called at line 107.                    *)
(***************************************************************************)
get_primary_token ==
    /\ pc = "get_primary_token"
    /\ \/ \* --token given: no request is made
          /\ console' = Append(console,
                "Warning: A masquerade token cannot be refreshed upon expiry.")
          /\ primary_token' = DirectTok
          /\ refresh_token_val' = NoneTok
          /\ Goto("get_subaccounts")
          /\ UNCHANGED reqs
       \/ \* password grant
          \E status \in {200} \cup ErrorStatuses :
            /\ reqs' = Append(reqs, Req("login", NoneTok, 0, 0, status, {},
                                        0, EmptyCursor))
            /\ UNCHANGED console
            /\ IF IsHttpError(status)
               THEN /\ Raise("HTTPError")
                    /\ UNCHANGED auth
               ELSE /\ primary_token' = AccessTok
                    /\ refresh_token_val' = RefreshTok
                    /\ Goto("get_subaccounts")
    /\ UNCHANGED <<offset, subaccounts, acctIdx, subaccount_token, cursor,
                   zones, zoneIdx, pools, data, dest, args, srv>>

(***************************************************************************)
(* make_request (lines 35-45): what the call ends in for the status of the *)
(* first answer.  On 401 with a truthy refresh_token, line 41 calls        *)
(* refresh_token(refresh_token): inside make_request that name is the      *)
(* parameter, the refresh token itself, not the function of line 25, so    *)
(* the call raises TypeError before any second request.                    *)
(***************************************************************************)
\* Without the early return of lines 38-39: a 403 raises like any error.
make_request_No403Return(status, refresh_token) ==
    IF status = 401 /\ Truthy(refresh_token) THEN "TypeError"
    ELSE IF IsHttpError(status) THEN "HTTPError"
    ELSE "response"

make_request(status, refresh_token) ==
    IF status = 403 THEN "response"
    ELSE IF status = 401 /\ Truthy(refresh_token) THEN "TypeError"
    ELSE IF IsHttpError(status) THEN "HTTPError"
    ELSE "response"

\* The test written with <= : a full page ends the fetch.
PageIsLast_FullPageStops(returnedCount) == returnedCount <= PageLimit

\* lines 57 and 101: the page is the last one.
PageIsLast(returnedCount) == returnedCount < PageLimit

\* lines 59 and 103.
NextOffset(o) == o + PageLimit

\* get_subaccounts, lines 50-54: what one iteration ends in.
ListingOutcome(status, body, refresh_token) ==
    LET r == make_request(status, refresh_token) IN
    IF r /= "response" THEN r
    ELSE IF status = 403 /\ NoPermission \in body THEN "exit"
    ELSE IF IsHttpError(status) THEN "HTTPError"
    ELSE "page"

(***************************************************************************)
(* get_subaccounts (lines 47-60): one iteration of the loop; on break the  *)
(* function returns and main() goes on with lines 109-111.                 *)
(***************************************************************************)
get_subaccounts ==
    /\ pc = "get_subaccounts"
    /\ \E status \in {200} \cup ErrorStatuses, body \in ListBodies :
        LET page == IF status = 200
                    THEN ServerPage(Items(srvNumAccounts), offset) ELSE <<>>
            outcome == ListingOutcome(status, body, refresh_token_val)
            all == subaccounts \o page
        IN
        /\ status = 200 => body = {}
        /\ reqs' = Append(reqs, Req("subaccounts", primary_token, 0, offset,
                                    status, body, Len(page), EmptyCursor))
        /\ IF outcome = "exit"
           THEN /\ console' = Append(console,
                     "Error: You do not have permissions to access sub-accounts. Ensure you're using a reseller account.")
                /\ Exit(1)
                /\ UNCHANGED <<subaccounts, offset, data, acctIdx>>
           ELSE IF outcome /= "page"
           THEN /\ Raise(outcome)
                /\ UNCHANGED <<console, subaccounts, offset, data, acctIdx>>
           ELSE /\ subaccounts' = all
                /\ UNCHANGED console
                /\ IF ~PageIsLast(Len(page))
                   THEN /\ offset' = NextOffset(offset)
                        /\ Goto("get_subaccounts")
                        /\ UNCHANGED <<data, acctIdx>>
                   ELSE IF entry = "get_subaccounts"
                   THEN /\ Goto("returned")
                        /\ UNCHANGED <<offset, data, acctIdx>>
                   ELSE /\ data' = InitialData
                        /\ acctIdx' = 1
                        /\ Goto(IF Len(all) = 0 THEN "report"
                                ELSE "get_subaccount_token")
                        /\ UNCHANGED offset
    /\ UNCHANGED <<auth, subaccount_token, cursor, zones, zoneIdx, pools,
                   dest, args, srv>>

(***************************************************************************)
(* get_subaccount_token (lines 62-76), called at line 113, and the test of *)
(* line 114.                                                               *)
(***************************************************************************)
\* The except branch without the "is suspended" test: every failure raised.
TokenOutcome_AlwaysRaise(status, body) ==
    IF ~IsHttpError(status) THEN "token" ELSE "HTTPError"

\* The except branch swallowing every failure.
TokenOutcome_AlwaysSkip(status, body) ==
    IF ~IsHttpError(status) THEN "token" ELSE "None"

\* What the call ends in: the token, None after the skip message, or the
\* HTTPError raised again.
TokenOutcome(status, body) ==
    IF ~IsHttpError(status) THEN "token"
    ELSE IF Suspended \in body THEN "None"
    ELSE "HTTPError"

get_subaccount_token ==
    /\ pc = "get_subaccount_token"
    /\ LET account == subaccounts[acctIdx]
           account_name == AccountName(account)
       IN
       \E status \in {200} \cup ErrorStatuses, body \in TokenBodies :
        LET outcome == TokenOutcome(status, body) IN
        /\ status = 200 => body = {}
        /\ reqs' = Append(reqs, Req("subaccount_token", primary_token, account,
                                    0, status, body, 0, EmptyCursor))
        /\ IF outcome = "token"
           THEN \* line 116: get_zones(subaccount_token) starts
                /\ subaccount_token' = SubTok(account)
                /\ cursor' = EmptyCursor
                /\ zones' = <<>>
                /\ Goto("get_zones")
                /\ UNCHANGED <<console, acctIdx>>
           ELSE IF outcome = "None"
           THEN \* lines 73-74, 114-115
                /\ console' = Append(console,
                     <<"Skipping suspended sub-account: ", account_name>>)
                /\ subaccount_token' = NoneTok
                /\ acctIdx' = acctIdx + 1
                /\ Goto(AfterAccount(acctIdx))
                /\ UNCHANGED <<cursor, zones>>
           ELSE /\ Raise(outcome)
                /\ UNCHANGED <<console, subaccount_token, acctIdx, cursor,
                               zones>>
    /\ UNCHANGED <<auth, offset, subaccounts, zoneIdx, pools, data, dest,
                   args, srv>>

(***************************************************************************)
(* get_zones (lines 78-89): one iteration of the loop; on break the        *)
(* function returns and main() enters `for zone` (line 117).               *)
(***************************************************************************)
\* The loop left after the first page whatever the cursor.
CursorDone_FirstPageOnly(next) == TRUE

\* line 87: `not cursor`.
CursorDone(next) == next = EmptyCursor

get_zones ==
    /\ pc = "get_zones"
    /\ LET a == subaccount_token.acct
           pos == CursorPos(cursor)
       IN
       \/ \E status \in ErrorStatuses :
            \* line 83
            /\ reqs' = Append(reqs, Req("zones", subaccount_token, a, pos,
                                        status, {}, 0, EmptyCursor))
            /\ Raise("HTTPError")
            /\ UNCHANGED <<cursor, zones, zoneIdx, offset, pools, acctIdx,
                           srvZoneList>>
       \/ \E zl \in ZoneListChoices(a) :
          \E k \in PageSizes(Len(zl) - pos) :
            LET page == SubSeq(zl, pos + 1, pos + k)
                next == IF pos + k < Len(zl) THEN CursorAt(pos + k)
                        ELSE EmptyCursor
                all == zones \o page
            IN
            /\ srvZoneList' = IF a \in DOMAIN srvZoneList THEN srvZoneList
                              ELSE srvZoneList @@ (a :> zl)
            /\ reqs' = Append(reqs, Req("zones", subaccount_token, a, pos,
                                        200, {}, Len(page), next))
            /\ zones' = all
            /\ cursor' = next
            /\ IF ~CursorDone(next)
               THEN /\ Goto("get_zones")
                    /\ UNCHANGED <<zoneIdx, offset, pools, acctIdx>>
               ELSE IF Len(all) = 0
               THEN \* no zone: the body of `for account` ends
                    /\ acctIdx' = acctIdx + 1
                    /\ Goto(AfterAccount(acctIdx))
                    /\ UNCHANGED <<zoneIdx, offset, pools>>
               ELSE \* line 119: get_pools(zone_name, subaccount_token) starts
                    /\ zoneIdx' = 1
                    /\ offset' = 0
                    /\ pools' = <<>>
                    /\ Goto("get_pools")
                    /\ UNCHANGED acctIdx
    /\ UNCHANGED <<auth, subaccounts, subaccount_token, data, console, dest,
                   args, srvNumAccounts, srvPoolList>>

(***************************************************************************)
(* get_pools (lines 91-104): one iteration of the loop; on break the       *)
(* function returns, main() appends the rows of the zone (lines 120-123)   *)
(* and goes to the next zone, the next account or the report.              *)
(***************************************************************************)
\* Without the 404 test of line 96: raise_for_status() raises on 404.
PoolsOutcome_NotFoundRaises(status) ==
    IF IsHttpError(status) THEN "HTTPError" ELSE "page"

\* lines 96-98: what the answer's status makes of the iteration.
PoolsOutcome(status) ==
    IF status = 404 THEN "break"
    ELSE IF IsHttpError(status) THEN "HTTPError"
    ELSE "page"

\* lines 120-123: the rows of the pools of one zone of one account.
ZoneRows(account_name, zone_name, ps) ==
    [i \in 1..Len(ps) |->
        Row(account_name, zone_name, PoolName(ps[i]), PoolType(ps[i]))]

\* get_pools returns `all` to its caller.
PoolsReturn(all) ==
    IF entry = "get_pools"
    THEN /\ Goto("returned")
         /\ UNCHANGED <<data, zoneIdx, acctIdx, offset>>
         /\ pools' = all
    ELSE /\ data' = data \o ZoneRows(AccountName(subaccounts[acctIdx]),
                                     ZoneName(zones[zoneIdx]), all)
         /\ IF zoneIdx < Len(zones)
            THEN /\ zoneIdx' = zoneIdx + 1
                 /\ offset' = 0
                 /\ pools' = <<>>
                 /\ Goto("get_pools")
                 /\ UNCHANGED acctIdx
            ELSE /\ acctIdx' = acctIdx + 1
                 /\ pools' = all
                 /\ Goto(AfterAccount(acctIdx))
                 /\ UNCHANGED <<zoneIdx, offset>>

get_pools ==
    /\ pc = "get_pools"
    /\ LET z == zones[zoneIdx] IN
       \/ \E status \in ErrorStatuses \ {404} :
            /\ reqs' = Append(reqs, Req("pools", subaccount_token, z, offset,
                                        status, {}, 0, EmptyCursor))
            /\ Raise(PoolsOutcome(status))
            /\ UNCHANGED <<pools, data, zoneIdx, acctIdx, offset>>
            /\ UNCHANGED srvPoolList
       \/ \E pl \in PoolListChoices(z) :
            \* 404: the zone has no pool record at this offset or after it
            /\ offset >= Len(pl)
            /\ srvPoolList' = IF z \in DOMAIN srvPoolList THEN srvPoolList
                              ELSE srvPoolList @@ (z :> pl)
            /\ reqs' = Append(reqs, Req("pools", subaccount_token, z, offset,
                                        404, {}, 0, EmptyCursor))
            /\ IF PoolsOutcome(404) = "break"
               THEN PoolsReturn(pools)
               ELSE /\ Raise("HTTPError")
                    /\ UNCHANGED <<pools, data, zoneIdx, acctIdx, offset>>
       \/ \E pl \in PoolListChoices(z) :
            LET page == ServerPage(pl, offset)
                all == pools \o page
            IN
            /\ srvPoolList' = IF z \in DOMAIN srvPoolList THEN srvPoolList
                              ELSE srvPoolList @@ (z :> pl)
            /\ reqs' = Append(reqs, Req("pools", subaccount_token, z, offset,
                                        200, {}, Len(page), EmptyCursor))
            /\ IF PoolsOutcome(200) /= "page"
               THEN PoolsReturn(pools)
               ELSE IF ~PageIsLast(Len(page))
               THEN /\ pools' = all
                    /\ offset' = NextOffset(offset)
                    /\ Goto("get_pools")
                    /\ UNCHANGED <<data, zoneIdx, acctIdx>>
               ELSE PoolsReturn(all)
    /\ UNCHANGED <<auth, subaccounts, subaccount_token, cursor, zones,
                   console, dest, args, srvNumAccounts, srvZoneList>>

(***************************************************************************)
(* The report (lines 125-141).                                             *)
(***************************************************************************)
\* json.dump / json.dumps of a list of dicts: the array of objects, each
\* the key/value pairs of the dict in insertion order.
JsonText(d) ==
    [i \in 1..Len(d) |-> [j \in 1..Len(FieldNames) |->
                            <<FieldNames[j], d[i][FieldNames[j]]>>]]

\* csv.DictWriter(f, fieldnames=data[0].keys()): writeheader(), then
\* writerow(row) for row in data[1:]; a line is the fields in fieldnames order.
CsvText(d) ==
    << FieldNames >> \o
    [i \in 1..(Len(d) - 1) |-> [j \in 1..Len(FieldNames) |->
                                  d[i + 1][FieldNames[j]]]]

\* What lines 134-141 end in: the text printed, or the NameError of line
\* 138, where sys is used and the module never imports it.
StdoutOutcome(fmt) == IF fmt = "json" THEN "printed" ELSE "NameError"

report ==
    /\ pc = "report"
    /\ IF output_file
       THEN /\ outfile' = [opened |-> TRUE,
                           text |-> IF format = "json" THEN JsonText(data)
                                    ELSE CsvText(data)]
            /\ pc' = "done" /\ exit_code' = 0
            /\ UNCHANGED <<stdout_report, error>>
       ELSE IF StdoutOutcome(format) = "printed"
       THEN /\ stdout_report' = IF format = "json" THEN JsonText(data)
                                ELSE CsvText(data)
            /\ pc' = "done" /\ exit_code' = 0
            /\ UNCHANGED <<outfile, error>>
       ELSE /\ Raise(StdoutOutcome(format))
            /\ UNCHANGED dest
    /\ UNCHANGED <<auth, offset, subaccounts, acctIdx, subaccount_token,
                   cursor, zones, zoneIdx, pools, data, console, reqs, args,
                   srv>>

(***************************************************************************)
(* Specifications.                                                         *)
(***************************************************************************)
Next ==
    \/ get_primary_token
    \/ get_subaccounts
    \/ get_subaccount_token
    \/ get_zones
    \/ get_pools
    \/ report

\* A run of the program.
Spec == Init /\ [][Next]_vars

NextFetch ==
    \/ get_subaccounts
    \/ get_pools

\* get_subaccounts or get_pools run on its own over a result set of up to
\* MaxTotal objects.
SpecFetch == InitFetch /\ [][NextFetch]_vars

(***************************************************************************)
(* Vocabulary of the properties.                                           *)
(***************************************************************************)
LastReq == reqs[Len(reqs)]

\* Nothing of the report was written anywhere.
NoReport == ~outfile.opened /\ outfile.text = <<>> /\ stdout_report = <<>>

\* The report text of the run, wherever it went.
ReportText == IF output_file THEN outfile.text ELSE stdout_report

RECURSIVE Concat(_)
Concat(ss) == IF ss = <<>> THEN <<>> ELSE Head(ss) \o Concat(Tail(ss))

RECURSIVE SumCounts(_)
SumCounts(rs) == IF rs = <<>> THEN 0 ELSE Head(rs).count + SumCounts(Tail(rs))

\* What the API has listed so far: the zones of an account, the pools of a zone.
ListedZones(a) == IF a \in DOMAIN srvZoneList THEN srvZoneList[a] ELSE <<>>
ListedPools(z) == IF z \in DOMAIN srvPoolList THEN srvPoolList[z] ELSE <<>>

\* The row of the triple (account a, zone z, pool p).
TripleRow(a, z, p) == Row(AccountName(a), ZoneName(z), PoolName(p), PoolType(p))

\* The rows of the triples the API has listed, account-major, then by zone,
\* then by pool, each in the API's order.
ListedRowsOfZone(a, z) ==
    [i \in 1..Len(ListedPools(z)) |-> TripleRow(a, z, ListedPools(z)[i])]
ListedRowsOfAccount(a) ==
    Concat([k \in 1..Len(ListedZones(a)) |->
              ListedRowsOfZone(a, ListedZones(a)[k])])
ListedRows == Concat([a \in 1..srvNumAccounts |-> ListedRowsOfAccount(a)])

\* A csv.DictReader pass over a CSV text: one dict per line after the header.
ParseCsv(text) ==
    [i \in 1..(Len(text) - 1) |->
        [f \in {text[1][j] : j \in 1..Len(text[1])} |->
            LET j == CHOOSE j \in 1..Len(text[1]) : text[1][j] = f
            IN text[i + 1][j]]]

NonEmptyRow(row) == \A j \in 1..Len(FieldNames) : row[FieldNames[j]] /= ""

\* The run got to the report with every account gone through.
ReportReached == pc \in {"report", "done"} \/ error = "NameError"

\* Every listed sub-account was gone through to its last pool.
AllProcessed ==
    /\ acctIdx = Len(subaccounts) + 1
    /\ \A a \in 1..Len(subaccounts) :
        \E i \in 1..Len(reqs) :
            /\ reqs[i].op = "subaccount_token" /\ reqs[i].target = a
            /\ ~IsHttpError(reqs[i].status) =>
                 /\ a \in DOMAIN srvZoneList
                 /\ \A k \in 1..Len(srvZoneList[a]) :
                        srvZoneList[a][k] \in DOMAIN srvPoolList

(***************************************************************************)
(* C1.  Offset-style fetches (get_subaccounts, get_pools).  The requests   *)
(* carry the offsets 0, 1000, 2000, ...; every request but the last was    *)
(* answered by a full page, so none follows a page of fewer than 1000      *)
(* items; a page of fewer than 1000 items ends the fetch; the list built   *)
(* is at every moment the pages received so far, one after the other, and  *)
(* the list returned is the server's whole result set.                     *)
(***************************************************************************)
FetchOp == IF entry = "get_pools" THEN "pools" ELSE "subaccounts"
FetchedList == IF entry = "get_pools" THEN pools ELSE subaccounts
FullResultSet ==
    IF entry = "get_pools" THEN ListedPools(1) ELSE Items(srvNumAccounts)

C1_OffsetFetch ==
    /\ \A i \in 1..Len(reqs) :
        /\ reqs[i].op = FetchOp
        /\ reqs[i].at = (i - 1) * PageLimit
        /\ i < Len(reqs) => reqs[i].status = 200 /\ reqs[i].count >= PageLimit
    /\ (reqs /= <<>> /\ LastReq.status = 200 /\ LastReq.count < PageLimit)
          => pc = "returned"
    /\ error = "" =>
          FetchedList = SubSeq(FullResultSet, 1, SumCounts(reqs))
    /\ pc = "returned" => FetchedList = FullResultSet

\* A result set of two full pages and one more item, fetched in three requests.
C1_Witness ==
    /\ pc = "returned"
    /\ entry = "get_subaccounts"
    /\ Len(reqs) = 3
    /\ Len(subaccounts) = 2 * PageLimit + 1

(***************************************************************************)
(* C2.  Cursor-style fetch (get_zones).  The first request of an account   *)
(* carries the empty cursor and each later one the cursor the answer       *)
(* before it gave; no zones request of the account follows the answer      *)
(* that gave no next cursor; the list get_zones returns is the account's   *)
(* whole zone list as one unpaginated fetch would give it, every zone      *)
(* once and in the server's order.                                         *)
(***************************************************************************)
ZonesAnswered(i) == reqs[i].op = "zones" /\ reqs[i].status = 200

C2_CursorFetch ==
    /\ \A i \in 1..Len(reqs) :
        reqs[i].op = "zones" =>
            IF i > 1 /\ reqs[i - 1].op = "zones"
            THEN /\ reqs[i - 1].next /= EmptyCursor
                 /\ reqs[i].at = CursorPos(reqs[i - 1].next)
                 /\ reqs[i].target = reqs[i - 1].target
            ELSE reqs[i].at = 0
    /\ \A i \in 1..Len(reqs) :
        (ZonesAnswered(i) /\ reqs[i].next = EmptyCursor) =>
            \A j \in (i + 1)..Len(reqs) :
                ~(reqs[j].op = "zones" /\ reqs[j].target = reqs[i].target)
    /\ (reqs /= <<>> /\ ZonesAnswered(Len(reqs)) /\ LastReq.next = EmptyCursor)
          => zones = srvZoneList[LastReq.target]
    /\ pc = "get_pools" => zones = srvZoneList[subaccount_token.acct]

\* get_zones has just returned two zones that came in two pages.
C2_Witness ==
    /\ Len(reqs) >= 2
    /\ ZonesAnswered(Len(reqs)) /\ LastReq.next = EmptyCursor
    /\ ZonesAnswered(Len(reqs) - 1)
    /\ Len(zones) = 2
    /\ pc = "get_pools"

(***************************************************************************)
(* C3.  A sub-account whose impersonation request fails with a body        *)
(* containing "is suspended" is skipped: the HTTP error does not end the   *)
(* run, no zones or pools request is ever made for that account, no row    *)
(* names it, and the accounts after it are gone through, so that at the    *)
(* report the rows are those of the triples listed for the other           *)
(* accounts.  An impersonation failure without that phrase ends the run    *)
(* with the HTTP error, at that request.                                   *)
(***************************************************************************)
SuspendedAt(i) ==
    /\ reqs[i].op = "subaccount_token"
    /\ IsHttpError(reqs[i].status)
    /\ Suspended \in reqs[i].body

ImpersonationFailedAt(i) ==
    /\ reqs[i].op = "subaccount_token"
    /\ IsHttpError(reqs[i].status)
    /\ Suspended \notin reqs[i].body

C3_SuspendedSkipped ==
    /\ \A i \in 1..Len(reqs) :
        SuspendedAt(i) =>
            /\ error /= "HTTPError" \/ i < Len(reqs)
            /\ i = Len(reqs) => acctIdx = reqs[i].target + 1
            /\ \A j \in 1..Len(reqs) :
                 reqs[j].op \in {"zones", "pools"}
                     => reqs[j].tok /= SubTok(reqs[i].target)
            /\ reqs[i].target \notin DOMAIN srvZoneList
            /\ \A k \in 1..Len(data) :
                 data[k]["Sub Account Name"] /= AccountName(reqs[i].target)
    /\ \A i \in 1..Len(reqs) :
        ImpersonationFailedAt(i) =>
            i = Len(reqs) /\ pc = "aborted" /\ error = "HTTPError"
    /\ ReportReached =>
          /\ AllProcessed
          /\ SubSeq(data, 2, Len(data)) = ListedRows

\* Two accounts, the first suspended, the second with rows in the report.
C3_Witness ==
    /\ pc = "done"
    /\ Len(subaccounts) = 2
    /\ \E i \in 1..Len(reqs) : SuspendedAt(i) /\ reqs[i].target = 1
    /\ \E k \in 1..Len(data) : data[k]["Sub Account Name"] = AccountName(2)

(***************************************************************************)
(* C4.  A sub-account listing request answered 403 with the missing-       *)
(* permission body is the last request of the run: the permission-error    *)
(* message is printed, the process exits with a non-zero status and no     *)
(* report is written.                                                      *)
(***************************************************************************)
PermissionDeniedAt(i) ==
    /\ reqs[i].op = "subaccounts"
    /\ reqs[i].status = 403
    /\ NoPermission \in reqs[i].body

C4_PermissionDenied ==
    \A i \in 1..Len(reqs) :
        PermissionDeniedAt(i) =>
            /\ i = Len(reqs)
            /\ pc = "exited"
            /\ exit_code > 0
            /\ console /= <<>>
            /\ console[Len(console)] =
                 "Error: You do not have permissions to access sub-accounts. Ensure you're using a reseller account."
            /\ NoReport

C4_Witness ==
    /\ reqs /= <<>>
    /\ PermissionDeniedAt(Len(reqs))
    /\ pc = "exited"

(***************************************************************************)
(* C5.  A 404 on the first pools page of a zone does not raise: get_pools  *)
(* returns the empty list, no row names the zone, and main() goes on with  *)
(* the next zone of the account, or past the account when the zone was its *)
(* last; at the report the rows of the zones after it are there.           *)
(***************************************************************************)
PoolsNotFoundAt(i) ==
    /\ reqs[i].op = "pools"
    /\ reqs[i].status = 404
    /\ reqs[i].at = 0

\* Position of zone z in the zone list of account a.
ZonePos(a, z) == CHOOSE k \in 1..Len(srvZoneList[a]) : srvZoneList[a][k] = z

C5_NoPoolsIsEmpty ==
    /\ \A i \in 1..Len(reqs) :
        PoolsNotFoundAt(i) =>
            LET z == reqs[i].target
                a == reqs[i].tok.acct
            IN
            /\ ListedPools(z) = <<>>
            /\ \A k \in 1..Len(data) : data[k]["Zone Name"] /= ZoneName(z)
            /\ i = Len(reqs) =>
                 /\ error /= "HTTPError"
                 /\ IF ZonePos(a, z) < Len(srvZoneList[a])
                    THEN /\ pc = "get_pools"
                         /\ zones[zoneIdx] = srvZoneList[a][ZonePos(a, z) + 1]
                         /\ pools = <<>> /\ offset = 0
                    ELSE /\ pc = AfterAccount(a) \/ ReportReached
                         /\ acctIdx = a + 1
    /\ ReportReached => SubSeq(data, 2, Len(data)) = ListedRows

\* A zone answered 404 and a later zone of the same account has rows.
C5_Witness ==
    /\ pc = "done"
    /\ \E i \in 1..Len(reqs) :
        /\ PoolsNotFoundAt(i)
        /\ \E j \in (i + 1)..Len(reqs) :
            /\ reqs[j].op = "pools" /\ reqs[j].tok = reqs[i].tok
            /\ \E k \in 1..Len(data) :
                 data[k]["Zone Name"] = ZoneName(reqs[j].target)

\* The CSV text of a row sequence: the header, then one line per row.
CsvOf(rows) ==
    << FieldNames >> \o
    [i \in 1..Len(rows) |-> [j \in 1..Len(FieldNames) |-> rows[i][FieldNames[j]]]]

(***************************************************************************)
(* C6.  On a run that ends without failure the row sequence is one row per *)
(* listed (account, zone, pool) triple, account-major, then by zone, then  *)
(* by pool, and the JSON or CSV report presents exactly these rows in that *)
(* order.                                                                  *)
(***************************************************************************)
C6_RowsPerTriple ==
    pc = "done" =>
        /\ data = ListedRows
        /\ ReportText = IF format = "json" THEN JsonText(ListedRows)
                        ELSE CsvOf(ListedRows)

(***************************************************************************)
(* C7.  A listing request sent through make_request and answered 401,      *)
(* with a refresh token from login, is followed by exactly one refresh     *)
(* grant and exactly one re-send of the same request, whose outcome is     *)
(* final; without a refresh token the 401 ends the run with the HTTP       *)
(* error and nothing is re-sent.                                           *)
(***************************************************************************)
\* The request at i is a first send (not the re-send after a refresh).
FirstSend(i) == i = 1 \/ reqs[i - 1].op /= "refresh"

UnauthorizedAt(i) ==
    /\ reqs[i].op = "subaccounts"
    /\ reqs[i].status = 401
    /\ FirstSend(i)

C7_RefreshAndRetry ==
    \A i \in 1..Len(reqs) :
        UnauthorizedAt(i) =>
            IF Truthy(refresh_token_val)
            THEN /\ Len(reqs) >= i + 2
                 /\ reqs[i + 1].op = "refresh"
                 /\ reqs[i + 2].op = "subaccounts"
                 /\ reqs[i + 2].at = reqs[i].at
                 /\ IsHttpError(reqs[i + 2].status) =>
                        Len(reqs) = i + 2 /\ error = "HTTPError"
            ELSE /\ i = Len(reqs)
                 /\ pc = "aborted"
                 /\ error = "HTTPError"

(***************************************************************************)
(* C8.  With format csv, to a named file as to standard output, a run      *)
(* whose aggregation succeeded ends by writing the header line and one     *)
(* line per aggregated row, in order; parsing the text gives the rows      *)
(* back.                                                                   *)
(***************************************************************************)
\* main() has left the report step, one way or the other.
ReportLeft == pc = "done" \/ error = "NameError"

C8_CsvReport ==
    (format = "csv" /\ ReportLeft) =>
        /\ pc = "done"
        /\ ReportText = CsvOf(SubSeq(data, 2, Len(data)))
        /\ ParseCsv(ReportText) = SubSeq(data, 2, Len(data))

(***************************************************************************)
(* C9.  Every row of the row sequence handed to the reporter has four      *)
(* non-empty fields, at every point of a run.                              *)
(***************************************************************************)
C9_RowsNonEmpty == \A k \in 1..Len(data) : NonEmptyRow(data[k])

(***************************************************************************)
(* C10.  A request answered with a 4xx/5xx status that is not a handled    *)
(* case (suspended account, 404 on pools, 401 with a refresh token in      *)
(* make_request) is the last request of the run: the run ends there and    *)
(* nothing of the report is written, the output file not even opened.      *)
(* The report is written only once every listed sub-account has been       *)
(* gone through.                                                           *)
(***************************************************************************)
HandledAt(i) ==
    \/ ~IsHttpError(reqs[i].status)
    \/ reqs[i].op = "subaccount_token" /\ Suspended \in reqs[i].body
    \/ reqs[i].op = "pools" /\ reqs[i].status = 404
    \/ /\ reqs[i].op = "subaccounts"
       /\ reqs[i].status = 401
       /\ Truthy(refresh_token_val)

C10_NoPartialReport ==
    /\ \A i \in 1..Len(reqs) :
        ~HandledAt(i) =>
            /\ i = Len(reqs)
            /\ pc \in {"aborted", "exited"}
            /\ exit_code > 0
            /\ NoReport
    /\ ~NoReport =>
        /\ pc = "done"
        /\ \A i \in 1..Len(reqs) : HandledAt(i)
        /\ AllProcessed

\* A zones request of the second account failed after the first account
\* had produced rows: the run is over and nothing was written.
C10_Witness ==
    /\ reqs /= <<>>
    /\ LastReq.op = "zones" /\ IsHttpError(LastReq.status)
    /\ LastReq.target = 2
    /\ Len(data) > 1
    /\ pc = "aborted"
    /\ NoReport

====
